---- MODULE Spec2Model ----
(***************************************************************************)
(* Update-package lifecycle manager of react-native-code-push (Windows):   *)
(* the package metadata store (CodePushPackage.cpp), the folder merger     *)
(* (CodePushUpdateUtils.cpp) and the path sanitizer / archive extractor    *)
(* (FileUtils.cpp).                                                        *)
(*                                                                         *)
(* Storage operations are taken to succeed unless an action names the      *)
(* failure it models; calls are serialized by the caller (spec section 5). *)
(***************************************************************************)
EXTENDS Integers, Sequences, FiniteSets, TLC

(***************************************************************************)
(* Bounds                                                                  *)
(***************************************************************************)
NumHashes == 3

Hashes == 1..NumHashes

(***************************************************************************)
(* Values of a field of the StatusFile's JSON object.  A package hash is   *)
(* a number of Hashes; the three other values a field can take are the     *)
(* empty string, a key that is not there, and the JSON null value.         *)
(***************************************************************************)
EmptyStr == 0

AbsentKey == -1

JsonNull == -2

(***************************************************************************)
(* What Windows.Data.Json does with a null value is not fixed by the       *)
(* source, so each call that meets one takes one of the library's possible *)
(* behaviours:                                                             *)
(*   "throws"      Insert(key, nullptr) / Remove(missing key) throws;      *)
(*   "nullStrict"  the null is stored, and GetNamedString(key, default)    *)
(*                 throws on a value that is not a string;                 *)
(*   "nullLenient" the null is stored, and GetNamedString(key, default)    *)
(*                 answers the default for it.                             *)
(***************************************************************************)
Platforms == {"throws", "nullStrict", "nullLenient"}

(***************************************************************************)
(* File names (CodePushPackage.h, CodePushUpdateUtils.h)                   *)
(***************************************************************************)
UpdateMetadataFileName == "app.json"

DiffManifestFileName == "hotcodepush.json"

UpdateBundleFileName == "update.bundle"

ManifestFolderPrefix == "CodePush"

AssetsFolderName == "assets"

\* The download file <root>/DownloadFileName and the unzip folder in the
\* cache are replaced at the start of every download and read by nothing
\* else; they are not part of the state.
VARIABLES
    folders,      \* hash -> the package folder <root>/<hash>, or none
    statusFile,   \* <root>/StatusFile
    last,         \* the last call and what it returned
    input,        \* the name handed to the sanitizer / extractor
    result        \* what it made of it

storeVars == <<folders, statusFile, last>>

pathVars == <<input, result>>

vars == <<folders, statusFile, last, input, result>>

(***************************************************************************)
(* Folder trees.  A path is a sequence of names; a tree holds its files    *)
(* (path -> content) and all its directories.                              *)
(***************************************************************************)
EmptyTree == [files |-> [p \in {} |-> {}], dirs |-> {}]

NoFolder == [exists |-> FALSE, tree |-> EmptyTree]

Folder(t) == [exists |-> TRUE, tree |-> t]

ProperPrefixes(p) == {SubSeq(p, 1, k) : k \in 1..(Len(p) - 1)}

IsPrefix(p, q) == Len(p) <= Len(q) /\ SubSeq(q, 1, Len(p)) = p

IsFile(t, p) == p \in DOMAIN t.files

IsDir(t, p) == p \in t.dirs

ItemExists(t, p) == IsFile(t, p) \/ IsDir(t, p)

\* CreateFileAsync(name, ReplaceExisting) below folders opened with
\* CreateFolderAsync(seg, OpenIfExists): fails on a file where a folder is
\* needed and on a folder where the file is to be.
CanWrite(t, p) ==
    /\ p # <<>>
    /\ ~IsDir(t, p)
    /\ \A q \in ProperPrefixes(p) : ~IsFile(t, q)

WriteFile(t, p, d) ==
    [files |-> [q \in DOMAIN t.files \cup {p} |-> IF q = p THEN d ELSE t.files[q]],
     dirs  |-> t.dirs \cup ProperPrefixes(p)]

MakeDir(t, p) == [t EXCEPT !.dirs = @ \cup {p} \cup ProperPrefixes(p)]

\* IStorageItem.DeleteAsync(): a file, or a folder with all it holds.
DeleteItem(t, p) ==
    [files |-> [q \in {r \in DOMAIN t.files : ~IsPrefix(p, r)} |-> t.files[q]],
     dirs  |-> {r \in t.dirs : ~IsPrefix(p, r)}]

\* The tree below directory d.
Subtree(t, d) ==
    LET under(S) == {SubSeq(r, Len(d) + 1, Len(r)) :
                        r \in {x \in S : IsPrefix(d, x) /\ x # d}}
    IN  [files |-> [q \in under(DOMAIN t.files) |-> t.files[d \o q]],
         dirs  |-> under(t.dirs)]

TopItems(t) == {<<p[1]>> : p \in (DOMAIN t.files) \cup t.dirs}

(***************************************************************************)
(* File contents.  Bytes are identified by where they come from: the       *)
(* archive of a package (its hash) or the application binary (BinarySrc).  *)
(***************************************************************************)
BinarySrc == 0

Data(src) == [kind |-> "data", src |-> src]

\* The serialized update descriptor; bundlePath <<>> when it carries no
\* relativeBundlePath.
Meta(hash, bundlePath) == [kind |-> "meta", packageHash |-> hash, bundlePath |-> bundlePath]

Manifest(state, deleted) == [kind |-> "manifest", state |-> state, deletedFiles |-> deleted]

NoPackage == [kind |-> "none"]

(***************************************************************************)
(* Names: _wcsicmp compares without case, the *.bundle / *.jsbundle query  *)
(* filters on the extension and orders by name.                            *)
(***************************************************************************)
ToUpperName(n) ==
    CASE n = "CodePush" -> "CODEPUSH"
      [] n = "codepush" -> "CODEPUSH"
      [] n = "index.bundle" -> "INDEX.BUNDLE"
      [] n = "index.windows.bundle" -> "INDEX.WINDOWS.BUNDLE"
      [] n = "Index.Windows.Bundle" -> "INDEX.WINDOWS.BUNDLE"
      [] n = "main.jsbundle" -> "MAIN.JSBUNDLE"
      [] n = "update.bundle" -> "UPDATE.BUNDLE"
      [] n = "a.txt" -> "A.TXT"
      [] n = "b.txt" -> "B.TXT"
      [] n = "app.json" -> "APP.JSON"
      [] n = "assets" -> "ASSETS"
      [] OTHER -> n

SameNameNoCase(a, b) == ToUpperName(a) = ToUpperName(b)

HasBundleExtension(n) ==
    ToUpperName(n) \in {"INDEX.BUNDLE", "INDEX.WINDOWS.BUNDLE", "MAIN.JSBUNDLE", "UPDATE.BUNDLE"}

\* Names in the order CommonFileQuery::OrderByName lists them.
NamesByName == <<"a.txt", "app.json", "b.txt", "CodePush", "hotcodepush.json",
                 "index.bundle", "index.windows.bundle", "main.jsbundle", "update.bundle">>

NameRank(n) ==
    LET hits == {i \in 1..Len(NamesByName) : SameNameNoCase(NamesByName[i], n)}
    IN  IF hits = {} THEN Len(NamesByName) + 1 ELSE CHOOSE i \in hits : TRUE

LeafName(p) == p[Len(p)]

(***************************************************************************)
(* Folder merger (CodePushUpdateUtils.cpp)                                 *)
(***************************************************************************)
\* A source root whose only item is a folder named "CodePush" is replaced
\* by that folder.
MaybeStripTopCodePushAsync(sourceRoot) ==
    LET items == TopItems(sourceRoot)
    IN  IF /\ Cardinality(items) = 1
           /\ \E i \in items : IsDir(sourceRoot, i) /\ SameNameNoCase(i[1], ManifestFolderPrefix)
        THEN Subtree(sourceRoot, CHOOSE i \in items : TRUE)
        ELSE sourceRoot

\* Every file below the (stripped) source root is copied to the same
\* relative path below destRoot, replacing a file there; a file whose copy
\* throws is logged and skipped.
CopyEntriesInFolderAsync(sourceRoot, destRoot) ==
    LET copyRoot == MaybeStripTopCodePushAsync(sourceRoot)
        copied   == {p \in DOMAIN copyRoot.files : CanWrite(destRoot, p)}
    IN  [files |-> [p \in (DOMAIN destRoot.files) \cup copied |->
                        IF p \in copied THEN copyRoot.files[p] ELSE destRoot.files[p]],
         dirs  |-> destRoot.dirs \cup UNION {ProperPrefixes(p) : p \in copied}]

(***************************************************************************)
(* FileUtils::FindFilePathAsync.  The answer is a relative path, <<>> for  *)
(* the empty string; the operator gives the set of answers the call can    *)
(* return, as the order of an unordered deep file query is not fixed.      *)
(***************************************************************************)
FindFilePathAsync(rootFolder, expectedFileName) ==
    LET files    == DOMAIN rootFolder.files
        \* 1) a file whose name is the whole expected string
        exact    == IF Len(expectedFileName) = 1
                    THEN {f \in files : SameNameNoCase(LeafName(f), expectedFileName[1])}
                    ELSE {}
        \* 2) walk the expected sub-folders, answer the last segment
        n        == Len(expectedFileName)
        parents  == {SubSeq(expectedFileName, 1, k) : k \in 1..(n - 1)}
        walkOk   == \A d \in parents : IsDir(rootFolder, d)
        \* 3) first *.bundle / *.jsbundle by name
        bundles  == {f \in files : HasBundleExtension(LeafName(f))}
        firsts   == {f \in bundles :
                        \A g \in bundles : NameRank(LeafName(f)) <= NameRank(LeafName(g))}
    IN  IF n > 0 /\ exact # {} THEN exact
        ELSE IF n > 0 /\ ~walkOk THEN {<<>>}
        ELSE IF n > 0 /\ ItemExists(rootFolder, expectedFileName)
             THEN {<<expectedFileName[n]>>}
        ELSE IF bundles = {} THEN {<<>>}
        ELSE firsts

(***************************************************************************)
(* Package metadata store: the read side (CodePushPackage.cpp)             *)
(***************************************************************************)
Thrown == -3

NoStatusFile == [kind |-> "none", currentPackage |-> AbsentKey, previousPackage |-> AbsentKey]

CorruptStatusFile == [kind |-> "corrupt", currentPackage |-> AbsentKey, previousPackage |-> AbsentKey]

StatusJson(cur, prev) == [kind |-> "json", currentPackage |-> cur, previousPackage |-> prev]

\* nullptr for a StatusFile that does not parse, an empty object when
\* there is no StatusFile.
GetCurrentPackageInfoAsync(sf) ==
    [null            |-> sf.kind = "corrupt",
     currentPackage  |-> sf.currentPackage,
     previousPackage |-> sf.previousPackage]

\* JsonObject::GetNamedString(name, L"")
GetNamedStringOr(v, pf) ==
    IF v = AbsentKey THEN EmptyStr
    ELSE IF v = JsonNull THEN (IF pf = "nullLenient" THEN EmptyStr ELSE Thrown)
    ELSE v

\* TryLookup(name) then IJsonValue::GetString()
LookupGetString(v) ==
    IF v = AbsentKey THEN EmptyStr
    ELSE IF v = JsonNull THEN Thrown
    ELSE v

GetPackageFolderAsync(packageHash, fl) ==
    IF packageHash \in Hashes /\ fl[packageHash].exists THEN packageHash ELSE EmptyStr

\* The hash of the current package's folder, EmptyStr for nullptr.
GetCurrentPackageFolderAsync(sf, fl, pf) ==
    LET info == GetCurrentPackageInfoAsync(sf)
        packageHash == GetNamedStringOr(info.currentPackage, pf)
    IN  IF info.null THEN EmptyStr
        ELSE IF packageHash = Thrown THEN Thrown
        ELSE IF packageHash = EmptyStr THEN EmptyStr
        ELSE GetPackageFolderAsync(packageHash, fl)

GetCurrentPackageHashAsync(sf) ==
    LET info == GetCurrentPackageInfoAsync(sf)
    IN  IF info.null THEN EmptyStr ELSE LookupGetString(info.currentPackage)

GetPreviousPackageHashAsync(sf) ==
    LET info == GetCurrentPackageInfoAsync(sf)
    IN  IF info.null THEN EmptyStr ELSE LookupGetString(info.previousPackage)

\* The parsed metadata file of the folder named packageHash, NoPackage
\* for nullptr.
GetPackageAsync(packageHash, fl) ==
    IF GetPackageFolderAsync(packageHash, fl) = EmptyStr THEN NoPackage
    ELSE LET t == fl[packageHash].tree
         IN  IF IsFile(t, <<UpdateMetadataFileName>>)
                /\ t.files[<<UpdateMetadataFileName>>].kind = "meta"
             THEN t.files[<<UpdateMetadataFileName>>]
             ELSE NoPackage

GetCurrentPackageAsync(sf, fl) ==
    LET packageHash == GetCurrentPackageHashAsync(sf)
    IN  IF packageHash = Thrown THEN [kind |-> "thrown"]
        ELSE IF packageHash = EmptyStr THEN NoPackage
        ELSE GetPackageAsync(packageHash, fl)

GetPreviousPackageAsync(sf, fl) ==
    LET packageHash == GetPreviousPackageHashAsync(sf)
    IN  IF packageHash = Thrown THEN [kind |-> "thrown"]
        ELSE IF packageHash = EmptyStr THEN NoPackage
        ELSE GetPackageAsync(packageHash, fl)

\* The current package's bundle file: the item its metadata's
\* relativeBundlePath names in its folder, when that item is a file.
GetCurrentPackageBundleAsync(sf, fl, pf) ==
    LET packageFolder  == GetCurrentPackageFolderAsync(sf, fl, pf)
        currentPackage == GetCurrentPackageAsync(sf, fl)
    IN  IF packageFolder = Thrown THEN [kind |-> "thrown"]
        ELSE IF packageFolder = EmptyStr THEN [kind |-> "none"]
        ELSE IF currentPackage.kind = "thrown" THEN [kind |-> "thrown"]
        ELSE IF currentPackage.kind = "none" THEN [kind |-> "none"]
        ELSE IF currentPackage.bundlePath # <<>>
                /\ IsFile(fl[packageFolder].tree, currentPackage.bundlePath)
             THEN [kind |-> "file", path |-> currentPackage.bundlePath]
        ELSE [kind |-> "none"]

\* UpdateCurrentPackageInfoAsync: the whole record replaces the StatusFile.
UpdateCurrentPackageInfoAsync(cur, prev) == StatusJson(cur, prev)

(***************************************************************************)
(* Package metadata store: install, rollback, clear                        *)
(***************************************************************************)
DeleteFolder(fl, h) == IF h \in Hashes THEN [fl EXCEPT ![h] = NoFolder] ELSE fl

\* An install that deletes the previous package's folder also when the
\* previous package is the incoming one.
InstallDeletedFolderIgnoringIncoming(packageHash, removePendingUpdate, sf, fl, pf) ==
    IF removePendingUpdate
    THEN GetCurrentPackageFolderAsync(sf, fl, pf)
    ELSE GetPackageFolderAsync(GetPreviousPackageHashAsync(sf), fl)

\* An install that forgets the deletion.
InstallDeletesNothing(packageHash, removePendingUpdate, sf, fl, pf) == EmptyStr

\* The folder InstallPackageAsync deletes before it writes the record:
\* the current package's (removePendingUpdate) or the previous package's.
InstallDeletedFolder(packageHash, removePendingUpdate, sf, fl, pf) ==
    IF removePendingUpdate
    THEN GetCurrentPackageFolderAsync(sf, fl, pf)
    ELSE LET previousPackageHash == GetPreviousPackageHashAsync(sf)
         IN  IF previousPackageHash # EmptyStr /\ previousPackageHash # packageHash
             THEN GetPackageFolderAsync(previousPackageHash, fl)
             ELSE EmptyStr

\* An install that rotates previousPackage whatever the flag.
InstallRecordAlwaysRotates(packageHash, removePendingUpdate, sf) ==
    LET info == GetCurrentPackageInfoAsync(sf)
    IN  UpdateCurrentPackageInfoAsync(packageHash,
            IF info.currentPackage # AbsentKey THEN info.currentPackage ELSE EmptyStr)

\* The record InstallPackageAsync writes.
InstallRecord(packageHash, removePendingUpdate, sf) ==
    LET info == GetCurrentPackageInfoAsync(sf)
        currentPackageVal == IF info.currentPackage # AbsentKey
                             THEN info.currentPackage ELSE EmptyStr
    IN  IF removePendingUpdate
        THEN UpdateCurrentPackageInfoAsync(packageHash, info.previousPackage)
        ELSE UpdateCurrentPackageInfoAsync(packageHash, currentPackageVal)

\* An "already installed" test that reads the wrong key.
AlreadyInstalledReadsPrevious(packageHash, info) == info.previousPackage = packageHash

\* Whether InstallPackageAsync returns at "already installed".
AlreadyInstalled(packageHash, info) == info.currentPackage = packageHash

\* How far InstallPackageAsync gets before its first I/O step:
\* "false" (no info), "throw" (a currentPackage that is no string),
\* "true" (already installed) or "go".
InstallEntry(packageHash, sf) ==
    LET info == GetCurrentPackageInfoAsync(sf)
    IN  IF info.null THEN "false"
        ELSE IF info.currentPackage = JsonNull THEN "throw"
        ELSE IF AlreadyInstalled(packageHash, info) THEN "true"
        ELSE "go"

InstallPackageAsync(packageHash, removePendingUpdate, sf, fl, pf) ==
    LET entry == InstallEntry(packageHash, sf)
    IN  IF entry # "go"
        THEN [ret |-> entry, statusFile |-> sf, folders |-> fl]
        ELSE [ret        |-> "true",
              statusFile |-> InstallRecord(packageHash, removePendingUpdate, sf),
              folders    |-> DeleteFolder(fl,
                                InstallDeletedFolder(packageHash, removePendingUpdate, sf, fl, pf))]

\* A rollback that keeps currentPackage.
RollbackCurrentKept(info) == info.currentPackage

\* The value RollbackPackage inserts as currentPackage.
RollbackCurrent(info) ==
    IF info.previousPackage = AbsentKey THEN JsonNull ELSE info.previousPackage

RollbackPackage(sf, fl, pf) ==
    LET info == GetCurrentPackageInfoAsync(sf)
        currentPackageFolder == GetCurrentPackageFolderAsync(sf, fl, pf)
        deleted == DeleteFolder(fl, currentPackageFolder)
    IN  IF info.null THEN [ret |-> "void", statusFile |-> sf, folders |-> fl]
        ELSE IF currentPackageFolder = Thrown
             THEN [ret |-> "throw", statusFile |-> sf, folders |-> fl]
        ELSE IF info.previousPackage = AbsentKey /\ pf = "throws"
             THEN [ret |-> "throw", statusFile |-> sf, folders |-> deleted]
        ELSE [ret        |-> "void",
              statusFile |-> UpdateCurrentPackageInfoAsync(RollbackCurrent(info), AbsentKey),
              folders    |-> deleted]

\* A clear that deletes the package folders and leaves the StatusFile.
ClearUpdatesAsyncKeepingStatusFile(sf, fl) ==
    [statusFile |-> sf, folders |-> [h \in Hashes |-> NoFolder]]

\* ClearUpdatesAsync deletes the root folder with all it holds.
ClearUpdatesAsync(sf, fl) ==
    [statusFile |-> NoStatusFile, folders |-> [h \in Hashes |-> NoFolder]]

(***************************************************************************)
(* Update orchestrator: CodePushPackage::DownloadPackageAsync              *)
(***************************************************************************)
TreeOf(paths, d) ==
    [files |-> [p \in paths |-> d], dirs |-> UNION {ProperPrefixes(p) : p \in paths}]

\* Tree t with the folder at path `at` holding `sub`.
Graft(t, at, sub) ==
    LET keep  == {r \in DOMAIN t.files : ~IsPrefix(at, r)}
        added == {at \o q : q \in DOMAIN sub.files}
    IN  [files |-> [r \in keep \cup added |->
                        IF r \in added THEN sub.files[SubSeq(r, Len(at) + 1, Len(r))]
                        ELSE t.files[r]],
         dirs  |-> {r \in t.dirs : ~IsPrefix(at, r)} \cup {at} \cup ProperPrefixes(at)
                   \cup {at \o q : q \in sub.dirs}]

\* The application's own content (CodePushNativeModule): the bundle file's
\* name and the assets folder.
HostBundle == "index.windows.bundle"

HostAssets == Folder(TreeOf({<<"a.txt">>}, Data(BinarySrc)))

\* A downloaded payload: a single bundle file, or a zip archive that opens
\* or not, with its files and (for a diff) its manifest.
Archive(isZip, opens, paths, manifest, deleted) ==
    [arrives |-> TRUE, isZip |-> isZip, opens |-> opens, paths |-> paths,
     manifest |-> manifest, deletedFiles |-> deleted]

\* A transfer that fails: CodePushDownloadHandler::Download throws.
NoTransfer == [Archive(FALSE, FALSE, {}, "none", {}) EXCEPT !.arrives = FALSE]

\* What FileUtils::UnzipAsync leaves in the unzip folder: nothing when the
\* archive does not open, else its files, bytes from the archive.
ExtractedTree(ar, src) ==
    IF ~ar.opens THEN EmptyTree
    ELSE LET t == TreeOf(ar.paths, Data(src))
         IN  IF ar.manifest = "none" THEN t
             ELSE WriteFile(t, <<DiffManifestFileName>>,
                            Manifest(ar.manifest, ar.deletedFiles))

\* Seed of a diff when there is no current package folder: the binary
\* bundle and assets under <new>/CodePush.
SeedFromBinary ==
    LET prefix == <<ManifestFolderPrefix>>
        assets == <<ManifestFolderPrefix, AssetsFolderName>>
        t0 == MakeDir(EmptyTree, prefix)
        t1 == IF HostAssets.exists
              THEN Graft(t0, assets, CopyEntriesInFolderAsync(HostAssets.tree, EmptyTree))
              ELSE t0
    IN  IF HostBundle # "" THEN WriteFile(t1, prefix \o <<HostBundle>>, Data(BinarySrc)) ELSE t1

\* The manifest's deletedFiles: each item found in the new folder is deleted.
ApplyDeletions(t, deleted) ==
    [files |-> [r \in {q \in DOMAIN t.files : \A d \in deleted : ~IsPrefix(d, q)} |-> t.files[r]],
     dirs  |-> {q \in t.dirs : \A d \in deleted : ~IsPrefix(d, q)}]

\* The deletion loop when the delete of one listed item throws (manifest
\* state "entryFails"): the trees the loop can leave behind, the items
\* listed before the failing one deleted.  No tree when nothing fails.
FailingDeletions(t, manifest) ==
    IF manifest.state # "entryFails" THEN {}
    ELSE {ApplyDeletions(t, done) :
            done \in UNION {SUBSET (manifest.deletedFiles \ {f}) :
                               f \in {d \in manifest.deletedFiles : ItemExists(t, d)}}}

\* A merge that deletes after the overlay.
MergedTreeDeletingLast(isDiff, seed, deleted, unzipped) ==
    IF isDiff
    THEN ApplyDeletions(CopyEntriesInFolderAsync(DeleteItem(unzipped, <<DiffManifestFileName>>),
                                                 seed),
                        deleted)
    ELSE CopyEntriesInFolderAsync(unzipped, EmptyTree)

\* Seed, delete, overlay: the new package folder before the bundle is
\* looked for.
MergedTree(isDiff, seed, deleted, unzipped) ==
    IF isDiff
    THEN CopyEntriesInFolderAsync(DeleteItem(unzipped, <<DiffManifestFileName>>),
                                  ApplyDeletions(seed, deleted))
    ELSE CopyEntriesInFolderAsync(unzipped, EmptyTree)

\* A move that leaves the download under its own name as well.
SingleFileTreeKeepingDownload(newUpdateHash) ==
    WriteFile(WriteFile(EmptyTree, <<UpdateBundleFileName>>, Data(newUpdateHash)),
              <<"download.zip">>, Data(newUpdateHash))

\* Single file: the download is moved into the new folder as the bundle.
SingleFileTree(newUpdateHash) ==
    WriteFile(EmptyTree, <<UpdateBundleFileName>>, Data(newUpdateHash))

\* A metadata write that leaves the resolved bundle path out.
PersistMetadataWithoutBundlePath(t, newUpdateHash, relativeBundlePath) ==
    WriteFile(t, <<UpdateMetadataFileName>>, Meta(newUpdateHash, <<>>))

\* Persist update metadata: the descriptor, with the relativeBundlePath
\* inserted into it, replaces the folder's metadata file.
PersistMetadata(t, newUpdateHash, relativeBundlePath) ==
    WriteFile(t, <<UpdateMetadataFileName>>, Meta(newUpdateHash, relativeBundlePath))

\* A download that activates the package it has fetched.
DownloadPackageAsyncActivating(newUpdateHash, ar, expectedBundleFileName, sf, fl, pf) ==
    {[ret        |-> "void",
      statusFile |-> UpdateCurrentPackageInfoAsync(newUpdateHash, sf.currentPackage),
      folders    |-> [fl EXCEPT ![newUpdateHash] = Folder(SingleFileTree(newUpdateHash))]]}

\* The set of outcomes of one call: what it returns ("void" or "throw"),
\* the package folders and the StatusFile it leaves.
DownloadPackageAsync(newUpdateHash, ar, expectedBundleFileName, sf, fl, pf) ==
    LET created  == [fl EXCEPT ![newUpdateHash] = Folder(EmptyTree)]
        leaves(ret, t) == [ret |-> ret, statusFile |-> sf,
                           folders |-> [fl EXCEPT ![newUpdateHash] = Folder(t)]]
        metaPath == <<UpdateMetadataFileName>>
        unzipped == ExtractedTree(ar, newUpdateHash)
        isDiff   == IsFile(unzipped, <<DiffManifestFileName>>)
        manifest == unzipped.files[<<DiffManifestFileName>>]
        current  == GetCurrentPackageFolderAsync(sf, created, pf)
        seed     == IF current \in Hashes
                    THEN CopyEntriesInFolderAsync(created[current].tree, EmptyTree)
                    ELSE SeedFromBinary
        merged   == MergedTree(isDiff, seed, manifest.deletedFiles, unzipped)
        cleaned  == IF IsFile(merged, metaPath) THEN DeleteItem(merged, metaPath) ELSE merged
        single   == SingleFileTree(newUpdateHash)
    IN  IF ~ar.arrives
        THEN {[ret |-> "throw", statusFile |-> sf, folders |-> fl]}
        ELSE IF ~ar.isZip
        THEN {leaves("void", PersistMetadata(single, newUpdateHash, <<>>))}
        ELSE IF isDiff /\ current = Thrown THEN {leaves("throw", EmptyTree)}
        ELSE IF isDiff /\ manifest.state = "malformed" THEN {leaves("throw", seed)}
        ELSE IF isDiff /\ FailingDeletions(seed, manifest) # {}
        THEN {leaves("throw", t) : t \in FailingDeletions(seed, manifest)}
        ELSE {IF relativeBundlePath = <<>> THEN leaves("throw", merged)
              ELSE IF ~CanWrite(cleaned, metaPath) THEN leaves("throw", cleaned)
              ELSE leaves("void", PersistMetadata(cleaned, newUpdateHash, relativeBundlePath))
              : relativeBundlePath \in FindFilePathAsync(merged, expectedBundleFileName)}

(***************************************************************************)
(* The store as a state machine: the caller's serialized calls             *)
(***************************************************************************)
ExpectedBundleFileName == <<"index.windows.bundle">>

\* Payloads the server hands out.
SingleFile == Archive(FALSE, FALSE, {}, "none", {})

FullZip == Archive(TRUE, TRUE, {<<"index.windows.bundle">>}, "none", {})

DiffZip == Archive(TRUE, TRUE, {<<"a.txt">>}, "ok", {})

DiffZipDeleting == Archive(TRUE, TRUE, {<<"b.txt">>}, "ok", {<<"index.windows.bundle">>})

BrokenZip == Archive(TRUE, FALSE, {}, "none", {})

Archives == {NoTransfer, SingleFile, FullZip, BrokenZip}

\* The current package hash as a caller sees it (EmptyStr: none).
CurrentView(sf) == IF sf.currentPackage \in Hashes THEN sf.currentPackage ELSE EmptyStr

\* The record of a call: what was called, what it returned, the current
\* package before an install or a clear, and whether the call follows the call the
\* two-call properties speak of: for an install, a successful install of
\* the same hash; for a rollback, a successful non-removing install of a
\* hash that was not current.
Follows(op, hash) ==
    /\ last.op = "install" /\ last.ret = "true"
    /\ \/ op = "install" /\ last.hash = hash
       \/ op = "rollback" /\ ~last.flag /\ last.hash # last.preCur

Call(op, hash, flag, ret) ==
    [op |-> op, hash |-> hash, flag |-> flag, ret |-> ret,
     preCur  |-> IF op \in {"install", "clear"} THEN CurrentView(statusFile) ELSE EmptyStr,
     follows |-> Follows(op, hash)]

NoResult == [stage |-> "idle"]

StoreInit ==
    /\ folders = [h \in Hashes |-> NoFolder]
    /\ statusFile = NoStatusFile
    /\ last = [op |-> "init", hash |-> EmptyStr, flag |-> FALSE, ret |-> "void",
               preCur |-> EmptyStr, follows |-> FALSE]

Init ==
    /\ StoreInit
    /\ input = <<>>
    /\ result = NoResult

\* The library's null behaviours a call can meet: only a diff update and a
\* rollback read a currentPackage that may be null (InstallPackageAsync has
\* thrown on it before its first lookup with a default).
NullCases(readsNull) == IF readsNull THEN Platforms ELSE {"throws"}

DownloadPackage(P, ar, pf) ==
    \E o \in DownloadPackageAsync(P, ar, ExpectedBundleFileName, statusFile, folders, pf) :
        /\ statusFile' = o.statusFile
        /\ folders' = o.folders
        /\ last' = Call("download", P, FALSE, o.ret)
        /\ UNCHANGED pathVars

InstallPackage(P, removePendingUpdate) ==
    LET o == InstallPackageAsync(P, removePendingUpdate, statusFile, folders, "throws")
    IN  /\ statusFile' = o.statusFile
        /\ folders' = o.folders
        /\ last' = Call("install", P, removePendingUpdate, o.ret)
        /\ UNCHANGED pathVars

Rollback(pf) ==
    LET o == RollbackPackage(statusFile, folders, pf)
    IN  /\ statusFile' = o.statusFile
        /\ folders' = o.folders
        /\ last' = Call("rollback", EmptyStr, FALSE, o.ret)
        /\ UNCHANGED pathVars

ClearUpdates ==
    LET o == ClearUpdatesAsync(statusFile, folders)
    IN  /\ statusFile' = o.statusFile
        /\ folders' = o.folders
        /\ last' = Call("clear", EmptyStr, FALSE, "void")
        /\ UNCHANGED pathVars

Next ==
    \/ \E P \in Hashes, ar \in Archives : \E pf \in NullCases(ar.manifest # "none") :
            DownloadPackage(P, ar, pf)
    \/ \E P \in Hashes, removePendingUpdate \in BOOLEAN : InstallPackage(P, removePendingUpdate)
    \/ \E pf \in Platforms : Rollback(pf)
    \/ ClearUpdates

Spec == Init /\ [][Next]_vars

(***************************************************************************)
(* Properties of the store                                                 *)
(***************************************************************************)
PackageFolders == {h \in Hashes : folders[h].exists}

HasMetadataFile(fl, h) ==
    h \in Hashes /\ fl[h].exists /\ IsFile(fl[h].tree, <<UpdateMetadataFileName>>)

\* Folders of packages the record names neither as current nor as previous.
Unrecorded(sf, fl) ==
    {h \in Hashes : fl[h].exists /\ h # sf.currentPackage /\ h # sf.previousPackage}

\* C1: whenever InstallPackageAsync(P, flag) returns true, the persisted
\* currentPackage is P, the folder P exists and holds a metadata file, and
\* GetCurrentPackage returns P's metadata.
C1_InstallTrueMeansInstalled ==
    (last.op = "install" /\ last.ret = "true") =>
        /\ GetCurrentPackageHashAsync(statusFile) = last.hash
        /\ HasMetadataFile(folders, last.hash)
        /\ GetCurrentPackageAsync(statusFile, folders).kind = "meta"
        /\ GetCurrentPackageAsync(statusFile, folders).packageHash = last.hash

\* C2: a non-empty persisted currentPackage names a folder that exists
\* under the root and holds a metadata file, and every call re-establishes
\* this or leaves the record unchanged.  Stated for a caller that installs
\* only packages whose folder holds a metadata file.
CurrentNamesFolder(sf, fl) ==
    sf.currentPackage \in Hashes => HasMetadataFile(fl, sf.currentPackage)

C2_CallsKeepCurrentFolder ==
    [][(/\ CurrentNamesFolder(statusFile, folders)
        /\ last'.op = "install" => HasMetadataFile(folders, last'.hash)) =>
           CurrentNamesFolder(statusFile', folders')]_vars

\* C4: an InstallPackageAsync(P, f2) right after a successful
\* InstallPackageAsync(P, f1) returns true and leaves the StatusFile and
\* the package folders as they were.
C4_InstallIdempotent ==
    [][(last'.op = "install" /\ last'.follows) =>
           /\ last'.ret = "true"
           /\ statusFile' = statusFile
           /\ folders' = folders]_vars

C4_Witness ==
    /\ last.op = "install" /\ last.follows /\ last.ret = "true"
    /\ statusFile.currentPackage = last.hash
    /\ folders[last.hash].exists

\* C5 as claimed: for any hash P (its folder downloaded), a successful
\* Install(P, false) followed by Rollback leaves currentPackage as it was
\* before the install, and P's folder no longer exists.
C5_RollbackUndoesAnyInstall ==
    [][(/\ last.op = "install" /\ ~last.flag /\ last.ret = "true"
        /\ HasMetadataFile(folders, last.hash)
        /\ last'.op = "rollback") =>
           /\ CurrentView(statusFile') = last.preCur
           /\ ~folders'[last.hash].exists]_vars

\* C5 as amended: for any hash P that is not the current package, a
\* successful Install(P, false) followed by Rollback leaves currentPackage
\* naming the package it named before the install (or none), and P's folder
\* no longer exists.
C5_RollbackUndoesInstall ==
    [][(last'.op = "rollback" /\ last'.follows) =>
           /\ CurrentView(statusFile') = last.preCur
           /\ ~folders'[last.hash].exists]_vars

C5_Witness ==
    /\ last.op = "rollback" /\ last.follows /\ last.ret = "void"
    /\ statusFile.currentPackage \in Hashes
    /\ folders[statusFile.currentPackage].exists

\* C6 as claimed: between calls at most two package folders exist, those
\* of currentPackage and previousPackage.
C6_AtMostTwoFolders ==
    /\ Cardinality(PackageFolders) <= 2
    /\ Unrecorded(statusFile, folders) = {}

\* C6 as amended: a package folder that the record names neither as
\* current nor as previous is only ever left by DownloadPackageAsync;
\* Install, Rollback and ClearUpdates leave no such folder that was not
\* there before them.
C6_OnlyDownloadAddsFolders ==
    [][last'.op # "download" =>
           Unrecorded(statusFile', folders') \subseteq Unrecorded(statusFile, folders)]_vars

C6_Witness ==
    /\ last.op = "install" /\ ~last.flag /\ last.ret = "true" /\ last.preCur \in Hashes
    /\ Cardinality(PackageFolders) = 3
    /\ Cardinality(Unrecorded(statusFile, folders)) = 1

\* C7 as claimed: right after a successful Install(P, true) of a P that was
\* not current, P's folder is the only package folder.  Stated for a P
\* whose folder holds a metadata file, from a state whose other package
\* folders are those the record names.
C7_OnlyInstalledFolderRemains ==
    [][(/\ last'.op = "install" /\ last'.flag /\ last'.ret = "true"
        /\ last'.hash # last'.preCur
        /\ HasMetadataFile(folders, last'.hash)
        /\ Unrecorded(statusFile, folders) \subseteq {last'.hash}) =>
           {h \in Hashes : folders'[h].exists} = {last'.hash}]_vars

\* C7 as amended: a successful Install(P, true) of a P that was not current
\* deletes the folder of the package that was current and no other: P's
\* folder and the folder of previousPackage stay as they were, and
\* previousPackage is not changed.
C7_RemovesOnlyCurrentFolder ==
    [][(last'.op = "install" /\ last'.flag /\ last'.ret = "true"
            /\ last'.hash # last'.preCur) =>
           /\ \A h \in Hashes :
                 folders'[h] = IF h = statusFile.currentPackage THEN NoFolder ELSE folders[h]
           /\ statusFile'.currentPackage = last'.hash
           /\ statusFile'.previousPackage = statusFile.previousPackage]_vars

C7_Witness ==
    /\ last.op = "install" /\ last.flag /\ last.ret = "true"
    /\ last.preCur \in Hashes /\ last.hash # last.preCur
    /\ ~folders[last.preCur].exists
    /\ statusFile.previousPackage \in Hashes
    /\ statusFile.previousPackage # last.hash
    /\ folders[statusFile.previousPackage].exists
    /\ folders[last.hash].exists

\* C8: a DownloadPackageAsync(P) that fails leaves the StatusFile and the
\* current package's folder, with its files and metadata file, as they were.
C8_FailedDownloadKeepsCurrent ==
    [][(/\ last'.op = "download" /\ last'.ret = "throw"
        /\ HasMetadataFile(folders, statusFile.currentPackage)) =>
           /\ statusFile' = statusFile
           /\ folders'[statusFile.currentPackage] = folders[statusFile.currentPackage]]_vars

(***************************************************************************)
(* Interrupted installs.  InstallPackageAsync does its I/O in order: the   *)
(* folder deletion, then (UpdateCurrentPackageInfoAsync) the creation of   *)
(* the StatusFile when there is none, then the write of the record.  The   *)
(* process can stop between two of them.                                   *)
(***************************************************************************)
\* Stopped after the folder deletion.
InstallInterruptedAfterDelete(P, removePendingUpdate) ==
    /\ InstallEntry(P, statusFile) = "go"
    /\ folders' = DeleteFolder(folders,
                      InstallDeletedFolder(P, removePendingUpdate, statusFile, folders, "throws"))
    /\ statusFile' = statusFile
    /\ last' = Call("install", P, removePendingUpdate, "interrupted")
    /\ UNCHANGED pathVars

\* Stopped after CreateFileAsync(StatusFile): the file is there and empty,
\* which does not parse.
InstallInterruptedAfterCreate(P, removePendingUpdate) ==
    /\ InstallEntry(P, statusFile) = "go"
    /\ statusFile.kind = "none"
    /\ folders' = DeleteFolder(folders,
                      InstallDeletedFolder(P, removePendingUpdate, statusFile, folders, "throws"))
    /\ statusFile' = CorruptStatusFile
    /\ last' = Call("install", P, removePendingUpdate, "interrupted")
    /\ UNCHANGED pathVars

NextCrash ==
    \/ Next
    \/ \E P \in Hashes, removePendingUpdate \in BOOLEAN :
            InstallInterruptedAfterDelete(P, removePendingUpdate)
    \/ \E P \in Hashes, removePendingUpdate \in BOOLEAN :
            InstallInterruptedAfterCreate(P, removePendingUpdate)

SpecCrash == Init /\ [][NextCrash]_vars

\* C3: an InstallPackageAsync interrupted between two of its I/O steps
\* leaves a persisted currentPackage that, when non-empty, names a package
\* folder that exists.  Stated for an install of a package whose folder
\* holds a metadata file, from a state where currentPackage names a folder.
C3_InterruptedInstallKeepsCurrentFolder ==
    [][(/\ last'.op = "install" /\ last'.ret = "interrupted"
        /\ HasMetadataFile(folders, last'.hash)
        /\ statusFile.currentPackage \in Hashes => folders[statusFile.currentPackage].exists) =>
           (statusFile'.currentPackage \in Hashes =>
                folders'[statusFile'.currentPackage].exists)]_vars

(***************************************************************************)
(* The path sanitizer (FileUtils.cpp).  A name is a sequence of wchar_t    *)
(* code units, written as their numbers: 46 is '.', 32 ' ', 95 '_',        *)
(* 47 '/', 92 '\', 58 ':'.  The names come from ASCII archive entries, on  *)
(* which the narrow/wide conversions (path::string, Utf8ToWide) keep each  *)
(* unit.                                                                   *)
(***************************************************************************)
kMaxSegmentLen == 240

IsInvalidChar(ch) ==
    \/ ch \in {60, 62, 58, 34, 47, 92, 124, 63, 42}    \* < > : " / \ | ? *
    \/ ch < 32

\* ::towupper on the ASCII range.
towupper(c) == IF c >= 97 /\ c <= 122 THEN c - 32 ELSE c

ReservedDeviceNames ==
    {<<67, 79, 78>>, <<80, 82, 78>>, <<65, 85, 88>>, <<78, 85, 76>>}      \* CON PRN AUX NUL
    \cup {<<67, 79, 77, d>> : d \in 49..57}                                \* COM1..COM9
    \cup {<<76, 80, 84, d>> : d \in 49..57}                                \* LPT1..LPT9

IsReservedDeviceName(nameNoExtUpper) == nameNoExtUpper \in ReservedDeviceNames

\* The loop pops while the last unit is '.' or ' ': what is left ends at
\* the last unit that is neither.
TrimTrailingDotsAndSpaces(s) ==
    SubSeq(s, 1, CHOOSE k \in 0..Len(s) :
                    /\ k = 0 \/ s[k] \notin {46, 32}
                    /\ \A j \in (k + 1)..Len(s) : s[j] \in {46, 32})

ReplaceInvalidChars(s) ==
    [i \in 1..Len(s) |-> IF IsInvalidChar(s[i]) THEN 95 ELSE s[i]]

\* find_last_of(L'.') as a 1-based position, 0 for npos.
FindLastDot(s) ==
    CHOOSE i \in 0..Len(s) :
        /\ i = 0 \/ s[i] = 46
        /\ \A j \in (i + 1)..Len(s) : s[j] # 46

NameNoExt(s) ==
    LET dot == FindLastDot(s)
    IN  IF dot # 0 THEN SubSeq(s, 1, dot - 1) ELSE s

ToUpper(s) == [i \in 1..Len(s) |-> towupper(s[i])]

\* The reserved-name step of SanitizeSegment, on the replaced and trimmed
\* segment.
PrefixReserved(seg) ==
    IF IsReservedDeviceName(ToUpper(NameNoExt(seg))) THEN <<95>> \o seg ELSE seg

\* The clamp of SanitizeSegment.
ClampSegment(seg) ==
    IF Len(seg) > kMaxSegmentLen
    THEN LET cut == TrimTrailingDotsAndSpaces(SubSeq(seg, 1, kMaxSegmentLen))
         IN  [ok |-> cut # <<>>, seg |-> cut]
    ELSE [ok |-> TRUE, seg |-> seg]

\* bool SanitizeSegment(std::wstring& seg): ok is the value returned, seg
\* the segment as the call leaves it.
SanitizeSegment(seg) ==
    IF seg = <<>> THEN [ok |-> FALSE, seg |-> seg]
    ELSE LET trimmed == TrimTrailingDotsAndSpaces(ReplaceInvalidChars(seg))
         IN  IF trimmed = <<>> \/ trimmed = <<46>> \/ trimmed = <<46, 46>>
             THEN [ok |-> FALSE, seg |-> trimmed]
             ELSE ClampSegment(PrefixReserved(trimmed))

(***************************************************************************)
(* SanitizeSegment on its own: every short name over an alphabet with a    *)
(* reserved name's letters in both cases, '.', ' ', a separator and a      *)
(* control character, and names around the clamp: a short head, a run of   *)
(* dots up to the clamp or one short of it, and at most one more unit.     *)
(***************************************************************************)
MaxSegmentInputLen == 4

SegmentAlphabet == {67, 111, 78, 46, 32, 47, 9}    \* C o N . space / TAB

Strings(alphabet, n) == UNION {[1..k -> alphabet] : k \in 0..n}

DotRun(n) == [i \in 1..n |-> 46]

ShortSegments == Strings(SegmentAlphabet, MaxSegmentInputLen)

LongSegments ==
    {head \o DotRun(kMaxSegmentLen - Len(head) + d) \o tail :
        head \in Strings(SegmentAlphabet, MaxSegmentInputLen - 1),
        d \in {-1, 0},
        tail \in Strings(SegmentAlphabet, 1)}

SegmentInit ==
    /\ StoreInit
    /\ input \in ShortSegments \cup LongSegments
    /\ result = [stage |-> "pending"]

Sanitize ==
    /\ result.stage = "pending"
    /\ result' = [stage |-> "sanitized",
                  ok |-> SanitizeSegment(input).ok,
                  seg |-> SanitizeSegment(input).seg]
    /\ UNCHANGED <<storeVars, input>>

SpecSegment == SegmentInit /\ [][Sanitize]_vars

\* What the sanitizer's contract asks of a name it lets through.
HasNoInvalidChar(s) ==
    \A i \in 1..Len(s) :
        /\ s[i] \notin {60, 62, 58, 34, 47, 92, 124, 63, 42}
        /\ s[i] >= 32

EndsInDotOrSpace(s) == s # <<>> /\ s[Len(s)] \in {46, 32}

IsDeviceName(s) ==
    \E r \in ReservedDeviceNames :
        /\ Len(s) >= Len(r)
        /\ \A i \in 1..Len(r) : towupper(s[i]) = r[i]
        /\ \/ Len(s) = Len(r)
           \/ /\ s[Len(r) + 1] = 46
              /\ \A i \in (Len(r) + 2)..Len(s) : s[i] # 46

\* C9: when SanitizeSegment does not signal skip, its output has no invalid
\* or control character, does not end in '.' or space, is at most 240 units
\* long, and its name without the final extension is not a reserved device
\* name in any case; segments longer than the clamp included.
C9_SanitizedSegmentIsValid ==
    (result.stage = "sanitized" /\ result.ok) =>
        /\ HasNoInvalidChar(result.seg)
        /\ ~EndsInDotOrSpace(result.seg)
        /\ Len(result.seg) <= kMaxSegmentLen
        /\ ~IsDeviceName(result.seg)

\* The same without the segments longer than the clamp.
C9_UnclampedSegmentIsValid ==
    (result.stage = "sanitized" /\ result.ok /\ Len(input) <= kMaxSegmentLen) =>
        /\ HasNoInvalidChar(result.seg)
        /\ ~EndsInDotOrSpace(result.seg)
        /\ Len(result.seg) <= kMaxSegmentLen
        /\ ~IsDeviceName(result.seg)

(***************************************************************************)
(* std::filesystem::path as CreateFileFromPathAsync uses it, with the      *)
(* parsing of the Windows standard library the module is built with: both  *)
(* '/' and '\' separate, a leading "X:" or "\\server" is a root-name, the  *)
(* separators after it the root-directory, and parent_path and filename    *)
(* never cut into the root.                                                *)
(***************************************************************************)
IsSlash(c) == c \in {47, 92}

IsDriveLetter(c) == (c >= 65 /\ c <= 90) \/ (c >= 97 /\ c <= 122)

\* Number of units of the root-name of p.
RootNameEnd(p) ==
    IF Len(p) < 2 THEN 0
    ELSE IF IsDriveLetter(p[1]) /\ p[2] = 58 THEN 2
    ELSE IF ~IsSlash(p[1]) THEN 0
    ELSE IF /\ Len(p) >= 4 /\ IsSlash(p[4])
            /\ (Len(p) = 4 \/ ~IsSlash(p[5]))
            /\ \/ IsSlash(p[2]) /\ p[3] \in {63, 46}
               \/ p[2] = 63 /\ p[3] = 63
         THEN 3
    ELSE IF Len(p) >= 3 /\ IsSlash(p[2]) /\ ~IsSlash(p[3])
         THEN CHOOSE k \in 3..Len(p) :
                 /\ k = Len(p) \/ IsSlash(p[k + 1])
                 /\ \A j \in 4..k : ~IsSlash(p[j])
    ELSE 0

\* Number of units before the relative-path of p: the root-name and the
\* separators that follow it.
RelativePathStart(p) ==
    CHOOSE k \in RootNameEnd(p)..Len(p) :
        /\ k = Len(p) \/ ~IsSlash(p[k + 1])
        /\ \A j \in (RootNameEnd(p) + 1)..k : IsSlash(p[j])

\* Number of units before the filename of p.
FilenameStart(p) ==
    CHOOSE k \in RelativePathStart(p)..Len(p) :
        /\ k = RelativePathStart(p) \/ IsSlash(p[k])
        /\ \A j \in (k + 1)..Len(p) : ~IsSlash(p[j])

filename(p) == SubSeq(p, FilenameStart(p) + 1, Len(p))

parent_path(p) ==
    SubSeq(p, 1, CHOOSE k \in RelativePathStart(p)..FilenameStart(p) :
                    /\ k = RelativePathStart(p) \/ ~IsSlash(p[k])
                    /\ \A j \in (k + 1)..FilenameStart(p) : IsSlash(p[j]))

has_parent_path(p) == parent_path(p) # <<>>

\* The loop that peels relPath into utf8Parts (top of the stack first).
\* parent_path never lengthens a path, so the loop goes on for ever exactly
\* when a step leaves relPath as it was; the stack then grows without bound
\* and the call does not return.
RECURSIVE PeelParts(_, _)
PeelParts(relPath, utf8Parts) ==
    IF ~has_parent_path(relPath) THEN [returns |-> TRUE, parts |-> utf8Parts]
    ELSE IF parent_path(relPath) = relPath THEN [returns |-> FALSE, parts |-> utf8Parts]
    ELSE PeelParts(parent_path(relPath), <<filename(parent_path(relPath))>> \o utf8Parts)

SanitizedOk(r) == r.ok

\* The folders the folder walk creates, outermost first.
WalkFolders(parts) ==
    LET kept == SelectSeq([i \in 1..(Len(parts) - 1) |-> SanitizeSegment(parts[i])],
                          SanitizedOk)
    IN  [i \in 1..Len(kept) |-> kept[i].seg]

\* CreateFileFromPathAsync on an empty destination root: the folders it
\* created below the root and, when it returns, the file in the innermost.
CreateFileFromPathAsync(relativePath) ==
    LET peel == PeelParts(relativePath, <<filename(relativePath)>>)
        fileSeg == SanitizeSegment(peel.parts[Len(peel.parts)])
    IN  IF ~peel.returns
        THEN [outcome |-> "noReturn", dirs |-> <<>>, file |-> <<>>]
        ELSE IF ~fileSeg.ok
        THEN [outcome |-> "invalidName", dirs |-> WalkFolders(peel.parts), file |-> <<>>]
        ELSE [outcome |-> "created", dirs |-> WalkFolders(peel.parts), file |-> fileSeg.seg]

(***************************************************************************)
(* CreateFileFromPathAsync on its own, on every entry name up to a length  *)
(* over an alphabet with a letter, ':', both separators, '.' and ' '.      *)
(***************************************************************************)
MaxPathLen == 5

PathAlphabet == {97, 58, 47, 92, 46, 32}    \* a : / \ . space

PathInit ==
    /\ StoreInit
    /\ input \in Strings(PathAlphabet, MaxPathLen)
    /\ result = [stage |-> "pending"]

CreateFileFromPath ==
    /\ result.stage = "pending"
    /\ result' = [stage |-> "called", call |-> CreateFileFromPathAsync(input)]
    /\ UNCHANGED <<storeVars, input>>

SpecPath == PathInit /\ [][CreateFileFromPath]_vars

\* The segments of an entry name: what stands between its separators.
RECURSIVE EntrySegments(_)
EntrySegments(p) ==
    IF \A i \in 1..Len(p) : ~IsSlash(p[i]) THEN <<p>>
    ELSE LET i == CHOOSE k \in 1..Len(p) : IsSlash(p[k]) /\ \A j \in 1..(k - 1) : ~IsSlash(p[j])
         IN  <<SubSeq(p, 1, i - 1)>> \o EntrySegments(SubSeq(p, i + 1, Len(p)))

FinalSegment(p) == EntrySegments(p)[Len(EntrySegments(p))]

\* The sanitized non-rejected segments before the final one, in order.
ExpectedFolders(p) == WalkFolders(EntrySegments(p))

\* A name that stays below the folder it is created in.
IsPlainName(s) ==
    /\ s # <<>> /\ s # <<46>> /\ s # <<46, 46>>
    /\ \A i \in 1..Len(s) : ~IsSlash(s[i])

CreatedWhereExpected(p, call) ==
    /\ call.outcome = "invalidName" <=> ~SanitizeSegment(FinalSegment(p)).ok
    /\ SanitizeSegment(FinalSegment(p)).ok =>
          /\ call.outcome = "created"
          /\ call.dirs = ExpectedFolders(p)
          /\ call.file = SanitizeSegment(FinalSegment(p)).seg
    /\ \A i \in 1..Len(call.dirs) : IsPlainName(call.dirs[i])
    /\ call.outcome = "created" => IsPlainName(call.file)

\* C10: for every relative entry path (one that does not begin with a
\* separator), CreateFileFromPathAsync fails with the invalid-entry-name
\* error exactly when the sanitizer rejects the final segment, skips the
\* rejected intermediate segments, and otherwise creates the file below the
\* destination root at the path of the sanitized non-rejected segments.
C10_FileCreatedAtSanitizedPath ==
    (result.stage = "called" /\ (input = <<>> \/ ~IsSlash(input[1]))) =>
        CreatedWhereExpected(input, result.call)

\* The same for the names that have no root-name either.
C10_RootlessFileCreatedAtSanitizedPath ==
    (result.stage = "called" /\ RelativePathStart(input) = 0) =>
        CreatedWhereExpected(input, result.call)

(***************************************************************************)
(* FileUtils::UnzipAsync, the loop over the archive's entries.  An entry   *)
(* is its declared uncompressed size (st.m_uncomp_size, which is also the  *)
(* outSize of a successful extraction to the heap) and what becomes of it: *)
(*   "skipped"      a directory, an empty or rooted name, "." or "..";     *)
(*   "extractFails" mz_zip_reader_extract_to_heap answers null;            *)
(*   "writeFails"   CreateFileFromPathAsync throws the invalid-name error; *)
(*   "written"      the file is created and the bytes are stored.          *)
(* The sizes are 64-bit and stay far below 2^64: an entry that reaches the *)
(* sum is at most kMaxEntryBytes and totalOut at most kMaxTotalBytes.      *)
(***************************************************************************)
kMaxEntryBytes == 200 * 1024 * 1024

kMaxTotalBytes == 1024 * 1024 * 1024

MaxEntries == 7

EntrySizes == {1, kMaxEntryBytes - 1, kMaxEntryBytes, kMaxEntryBytes + 1}

EntryFates == {"skipped", "extractFails", "writeFails", "written"}

\* if (st.m_uncomp_size > kMaxEntryBytes) continue;
EntryTooLarge(size) == size > kMaxEntryBytes

\* A total test that forgets the entry at hand.
TotalAlreadyExceeded(totalOut, size) == totalOut > kMaxTotalBytes

\* if (totalOut + st.m_uncomp_size > kMaxTotalBytes) break;
TotalExceeded(totalOut, size) == totalOut + size > kMaxTotalBytes

\* Entry names: "a", the directory entry "a/", "a/.." whose final segment
\* the sanitizer rejects, and "\" which holds separators only.
EntryNames == {<<97>>, <<97, 47>>, <<97, 47, 46, 46>>, <<92>>}

\* mz_zip_reader_is_file_a_directory: the name ends with '/'.
IsDirectoryEntry(name) == name # <<>> /\ name[Len(name)] = 47

\* The names the loop passes over before it looks at the size.
EarlySkip(name) ==
    \/ name = <<>>
    \/ IsDirectoryEntry(name)
    \/ name[1] = 47
    \/ name = <<46>> \/ name = <<46, 46>>

\* How CreateFileFromPathAsync ends on each entry name.
EntryFileOutcome == [name \in EntryNames |-> CreateFileFromPathAsync(name).outcome]

\* One turn of the loop on an entry: how the turn ends ("continue", "break",
\* or "noReturn" when CreateFileFromPathAsync does not come back), whether a
\* file was created, the bytes stored and the new totalOut.
UnzipEntry(name, size, fate, totalOut) ==
    LET passed == [turn |-> "continue", created |-> FALSE, stored |-> 0, totalOut |-> totalOut]
    IN  IF fate = "skipped" \/ EarlySkip(name) \/ EntryTooLarge(size) THEN passed
        ELSE IF TotalExceeded(totalOut, size) THEN [passed EXCEPT !.turn = "break"]
        ELSE IF fate = "extractFails" THEN passed
        ELSE IF EntryFileOutcome[name] = "noReturn"
        THEN [passed EXCEPT !.turn = "noReturn"]
        ELSE IF EntryFileOutcome[name] = "invalidName" \/ fate = "writeFails"
        THEN passed
        ELSE [turn |-> "continue", created |-> TRUE, stored |-> size,
              totalOut |-> totalOut + size]

UnzipInit ==
    /\ StoreInit
    /\ input = <<>>
    /\ result = [stage |-> "unzip", i |-> 0, totalOut |-> 0, bytesWritten |-> 0,
                 stopped |-> FALSE, size |-> 0, created |-> FALSE, oversized |-> FALSE,
                 name |-> <<>>, fate |-> "skipped", turn |-> "continue",
                 returned |-> FALSE]

\* The loop takes the next entry of the archive.
UnzipNextEntry(name, size, fate) ==
    LET turn == UnzipEntry(name, size, fate, result.totalOut)
    IN  /\ result.stage = "unzip" /\ result.turn = "continue" /\ ~result.returned
        /\ result.i < MaxEntries
        /\ result' = [stage        |-> "unzip",
                      i            |-> result.i + 1,
                      totalOut     |-> turn.totalOut,
                      bytesWritten |-> result.bytesWritten + turn.stored,
                      stopped      |-> turn.turn = "break",
                      size         |-> size,
                      created      |-> turn.created,
                      oversized    |-> result.oversized \/ size > kMaxEntryBytes,
                      name         |-> name,
                      fate         |-> fate,
                      turn         |-> turn.turn,
                      returned     |-> FALSE]
        /\ UNCHANGED <<storeVars, input>>

\* The loop has ended, by its break or at the archive's last entry:
\* UnzipAsync returns.
UnzipReturn ==
    /\ result.stage = "unzip" /\ result.turn # "noReturn" /\ ~result.returned
    /\ result' = [result EXCEPT !.returned = TRUE]
    /\ UNCHANGED <<storeVars, input>>

UnzipNext ==
    \/ \E name \in EntryNames, size \in EntrySizes, fate \in EntryFates :
          UnzipNextEntry(name, size, fate)
    \/ UnzipReturn

SpecUnzip == UnzipInit /\ [][UnzipNext]_vars

\* C11: during UnzipAsync an entry whose declared uncompressed size is over
\* the per-entry cap of 200 MiB never has a file created or written, and
\* the bytes written to the destination never exceed the total cap of 1 GiB.
C11_SizeCapsHold ==
    result.stage = "unzip" =>
        /\ result.size > 200 * 1024 * 1024 => ~result.created
        /\ result.bytesWritten <= 1024 * 1024 * 1024

\* The loop was stopped by the total cap, after it skipped an oversized
\* entry and wrote others.
C11_Witness ==
    /\ result.stage = "unzip" /\ result.stopped /\ result.oversized
    /\ result.bytesWritten > 0

(***************************************************************************)
(* One download on a root that holds an installed package or none: the     *)
(* diff overlay, the bundle lookup and the single-file path.  The root is  *)
(* the one left by a full-archive download of package 1 and its install,   *)
(* or a fresh one; the call then downloads package 1 again or package 2.   *)
(***************************************************************************)
\* Files of the installed package's archive, of a diff archive, and the
\* items a diff manifest lists as deleted.
InstalledPaths == {<<"index.windows.bundle">>, <<"a.txt">>, <<"assets", "a.txt">>}

DiffPaths == {<<"a.txt">>, <<"b.txt">>, <<"assets">>, <<"CodePush", "b.txt">>}

DeletedPaths == {<<"a.txt">>, <<"b.txt">>, <<"assets">>}

EmptyRoot == [h \in Hashes |-> NoFolder]

\* The roots with package 1 installed from a full archive, and the fresh one.
InstalledRoots ==
    {[folders    |-> o.folders,
      statusFile |-> InstallPackageAsync(1, FALSE, NoStatusFile, o.folders, "throws").statusFile] :
        o \in {x \in UNION {DownloadPackageAsync(1, Archive(TRUE, TRUE, paths, "none", {}),
                                                 ExpectedBundleFileName, NoStatusFile,
                                                 EmptyRoot, "throws") :
                               paths \in SUBSET InstalledPaths} :
                  x.ret = "void"}}
    \cup {[folders |-> EmptyRoot, statusFile |-> NoStatusFile]}

DiffArchives ==
    {Archive(TRUE, TRUE, paths, "ok", deleted) :
        paths \in SUBSET DiffPaths, deleted \in SUBSET DeletedPaths}

\* Diff archives one of whose listed deletions fails.
FailingDiffArchives ==
    {Archive(TRUE, TRUE, {<<"b.txt">>}, "entryFails", deleted) : deleted \in SUBSET DeletedPaths}

\* Diff archives that delete the installed package's bundle.
BundleDeletingArchives ==
    {Archive(TRUE, TRUE, paths, "ok", {<<"index.windows.bundle">>}) :
        paths \in {{}, {<<"b.txt">>}, {<<"main.jsbundle">>}}}

\* Diff archives laid out as the seed from the binary is.
BinaryDiffPaths ==
    {<<"CodePush", "index.windows.bundle">>, <<"CodePush", "assets", "a.txt">>, <<"b.txt">>}

BinaryDiffArchives ==
    {Archive(TRUE, TRUE, paths, "ok", {}) : paths \in (SUBSET BinaryDiffPaths) \ {{}}}

\* Files of a full archive, and the bundle names a caller expects.
FullPaths ==
    {<<"index.bundle">>, <<"assets", "index.bundle">>, <<"main.jsbundle">>, <<"a.txt">>,
     <<"app.json">>}

FullArchives == {Archive(TRUE, TRUE, paths, "none", {}) : paths \in SUBSET FullPaths}

ExpectedNames == {<<"index.windows.bundle">>, <<"index.bundle">>, <<"assets", "index.bundle">>}

OverlayArchives ==
    DiffArchives \cup FailingDiffArchives \cup BundleDeletingArchives \cup BinaryDiffArchives
        \cup FullArchives
        \cup {SingleFile, NoTransfer, BrokenZip}

OverlayInit ==
    /\ \E r \in InstalledRoots : folders = r.folders /\ statusFile = r.statusFile
    /\ last = [op |-> "init", hash |-> EmptyStr, flag |-> FALSE, ret |-> "void",
               preCur |-> EmptyStr, follows |-> FALSE]
    /\ input = <<>>
    /\ result = NoResult

\* The download, with the payload, the expected bundle name and the root
\* it met kept for reference.
OverlayDownload(P, ar, E, pf) ==
    /\ last.op = "init"
    /\ \E o \in DownloadPackageAsync(P, ar, E, statusFile, folders, pf) :
          /\ statusFile' = o.statusFile
          /\ folders' = o.folders
          /\ last' = Call("download", P, FALSE, o.ret)
    /\ result' = [stage |-> "downloaded", archive |-> ar, expected |-> E,
                  before |-> folders, statusBefore |-> statusFile]
    /\ UNCHANGED input

\* The install of the package just downloaded.
OverlayInstall(removePendingUpdate) ==
    /\ last.op = "download" /\ last.ret = "void"
    /\ LET o == InstallPackageAsync(last.hash, removePendingUpdate, statusFile, folders, "throws")
       IN  /\ statusFile' = o.statusFile
           /\ folders' = o.folders
           /\ last' = Call("install", last.hash, removePendingUpdate, o.ret)
    /\ UNCHANGED <<input, result>>

OverlayNext ==
    \/ \E P \in {1, 2}, ar \in OverlayArchives, E \in ExpectedNames :
          \E pf \in NullCases(ar.manifest # "none") : OverlayDownload(P, ar, E, pf)
    \/ \E removePendingUpdate \in BOOLEAN : OverlayInstall(removePendingUpdate)

SpecOverlay == OverlayInit /\ [][OverlayNext]_vars

\* Content files of a package folder: all but its metadata file.
ContentFiles(t) == (DOMAIN t.files) \ {<<UpdateMetadataFileName>>}

\* A successful diff download of a new package on a root whose current
\* package folder exists.
DiffSeededFromCurrent ==
    /\ result.stage = "downloaded" /\ last.op = "download" /\ last.ret = "void"
    /\ result.archive.manifest = "ok"
    /\ statusFile.currentPackage \in Hashes
    /\ last.hash # statusFile.currentPackage
    /\ result.before[statusFile.currentPackage].exists

\* C12 as claimed: with S the content files of the current package folder,
\* D the manifest's deleted files and N the archive's files, the new
\* package folder's content files are exactly (S minus D) union N, with
\* N's bytes on the paths of N and S's bytes on the others.
C12_OverlayIsSeedMinusDeletedPlusNew ==
    DiffSeededFromCurrent =>
        LET S == result.before[statusFile.currentPackage].tree
            D == result.archive.deletedFiles
            N == result.archive.paths
            new == folders[last.hash].tree
        IN  /\ ContentFiles(new) = (ContentFiles(S) \ D) \cup N
            /\ \A f \in ContentFiles(new) :
                  new.files[f] = IF f \in N THEN Data(last.hash) ELSE S.files[f]

\* A successful diff download on a root whose current package folder exists.
DiffSeededFromFolder ==
    /\ result.stage = "downloaded" /\ last.op = "download" /\ last.ret = "void"
    /\ result.archive.manifest = "ok"
    /\ statusFile.currentPackage \in Hashes
    /\ result.before[statusFile.currentPackage].exists

\* The archive's files as the overlay copies them: below the wrapper folder
\* when that folder is all the archive holds beside the manifest.
IsWrapped(N) ==
    N # {} /\ \A n \in N : Len(n) > 1 /\ SameNameNoCase(n[1], "CodePush")

Unwrapped(N) == IF IsWrapped(N) THEN {SubSeq(n, 2, Len(n)) : n \in N} ELSE N

\* C12, amended: the new folder's content files are (S minus D) union N
\* where S is the current package folder as the seeding finds it (empty
\* when the update has the current package's hash, whose folder the call
\* has just recreated), D removes each listed file or folder with all below
\* it, N is taken below the archive's wrapper folder when it has one, and a
\* file of N is left out when its path is a folder kept from S or lies
\* below a kept file.  N's bytes are on N's paths, S's on the others, and
\* no file of N is removed for being listed in D.
C12_OverlayIsSeedMinusDeletedPlusUnwrapped ==
    DiffSeededFromFolder =>
        LET S == IF last.hash = statusFile.currentPackage THEN EmptyTree
                 ELSE result.before[statusFile.currentPackage].tree
            D == result.archive.deletedFiles
            N == Unwrapped(result.archive.paths)
            new == folders[last.hash].tree
            keptFiles == {f \in DOMAIN S.files : \A d \in D : ~IsPrefix(d, f)}
            keptDirs  == {f \in S.dirs : \A d \in D : ~IsPrefix(d, f)}
            copied == {n \in N : /\ n \notin keptDirs
                                 /\ \A k \in 1..(Len(n) - 1) : SubSeq(n, 1, k) \notin keptFiles}
        IN  /\ ContentFiles(new) = (keptFiles \cup copied) \ {<<UpdateMetadataFileName>>}
            /\ \A f \in ContentFiles(new) :
                  new.files[f] = IF f \in copied THEN Data(last.hash) ELSE S.files[f]

\* Seed {index.windows.bundle, a.txt}, deleted {a.txt}, new {b.txt}.
C12_Witness ==
    /\ DiffSeededFromCurrent
    /\ ContentFiles(result.before[statusFile.currentPackage].tree)
           = {<<"index.windows.bundle">>, <<"a.txt">>}
    /\ result.archive.deletedFiles = {<<"a.txt">>}
    /\ result.archive.paths = {<<"b.txt">>}
    /\ ContentFiles(folders[last.hash].tree) = {<<"index.windows.bundle">>, <<"b.txt">>}

(***************************************************************************)
(* The bundle path stored by an archive-mode download                      *)
(***************************************************************************)
\* A successful archive-mode download followed by the successful install of
\* the package.
ArchiveInstalled ==
    /\ result.stage = "downloaded" /\ result.archive.isZip
    /\ last.op = "install" /\ last.ret = "true"

\* The files of tree t named E: the files whose path ends with E's
\* segments, names compared without case.
FilesNamed(t, E) ==
    {f \in DOMAIN t.files :
        /\ Len(f) >= Len(E)
        /\ \A k \in 1..Len(E) : SameNameNoCase(f[Len(f) - Len(E) + k], E[k])}

\* The stored path names an existing file of the folder, one named E when
\* the folder has such a file and a bundle file otherwise.
StoredPathNamesBundle(t, E) ==
    LET rel == t.files[<<UpdateMetadataFileName>>].bundlePath
    IN  /\ IsFile(t, rel)
        /\ IF FilesNamed(t, E) # {} THEN rel \in FilesNamed(t, E)
           ELSE HasBundleExtension(LeafName(rel))

\* C13: after a successful archive-mode download of P with expected bundle
\* name E, with or without subfolders, and the install of P, the
\* relativeBundlePath in P's metadata is the path of an existing file of
\* P's folder, named E if such a file exists and else a *.bundle or
\* *.jsbundle file, and GetCurrentPackageBundleAsync returns that file; for
\* archive whose one index.bundle is at its top and E = index.bundle the
\* stored path is index.bundle.
C13_StoredBundlePathNamesFile ==
    ArchiveInstalled =>
        LET t == folders[last.hash].tree
            rel == t.files[<<UpdateMetadataFileName>>].bundlePath
        IN  /\ StoredPathNamesBundle(t, result.expected)
            /\ GetCurrentPackageBundleAsync(statusFile, folders, "throws")
                  = [kind |-> "file", path |-> rel]
            /\ (/\ result.archive.manifest = "none"
                /\ FilesNamed(t, <<"index.bundle">>) = {<<"index.bundle">>}
                /\ result.expected = <<"index.bundle">>) => rel = <<"index.bundle">>

\* The same for an expected bundle name without subfolders.
C13_PlainNameStoredPathNamesFile ==
    (ArchiveInstalled /\ Len(result.expected) = 1) => C13_StoredBundlePathNamesFile

(***************************************************************************)
(* The single-file update                                                  *)
(***************************************************************************)
\* A successful download of a single-file (non-zip) update.
SingleFileDownloaded ==
    /\ result.stage = "downloaded" /\ result.archive.arrives /\ ~result.archive.isZip
    /\ last.op = "download" /\ last.ret = "void"

\* C14 as claimed: after a successful single-file download of H the package
\* folder H contains one file, the moved download, and no archive step has
\* left a trace.
C14_SingleFileFolderHoldsOneFile ==
    SingleFileDownloaded =>
        LET t == folders[last.hash].tree
        IN  /\ DOMAIN t.files = {<<UpdateBundleFileName>>}
            /\ t.files[<<UpdateBundleFileName>>] = Data(last.hash)
            /\ t.dirs = {}

\* C14, amended: the package folder H holds exactly two files, the moved
\* download under the name update.bundle and H's metadata file, which
\* carries no relativeBundlePath; it holds no folder and nothing seeded
\* from the current package or the binary, and every other package folder
\* is as it was.
C14_SingleFileFolderHoldsBundleAndMetadata ==
    SingleFileDownloaded =>
        LET t == folders[last.hash].tree
        IN  /\ DOMAIN t.files = {<<UpdateBundleFileName>>, <<UpdateMetadataFileName>>}
            /\ t.files[<<UpdateBundleFileName>>] = Data(last.hash)
            /\ t.files[<<UpdateMetadataFileName>>] = Meta(last.hash, <<>>)
            /\ t.dirs = {}
            /\ \A h \in Hashes \ {last.hash} : folders[h] = result.before[h]

\* A single-file download of package 2 beside an installed package 1 with
\* content of its own.
C14_Witness ==
    /\ SingleFileDownloaded
    /\ last.hash = 2
    /\ statusFile.currentPackage = 1
    /\ <<"a.txt">> \in DOMAIN folders[1].tree.files
    /\ ContentFiles(folders[2].tree) = {<<UpdateBundleFileName>>}

(***************************************************************************)
(* Rollback and install with no readable StatusFile                        *)
(***************************************************************************)
\* C15: when no StatusFile exists under the root, or it cannot be read,
\* RollbackPackage returns without error and leaves the root unchanged: it
\* creates or rewrites no StatusFile and deletes no package folder.
C15_RollbackWithoutRecordIsNoOp ==
    [][(statusFile.kind \in {"none", "corrupt"} /\ last'.op = "rollback")
          => /\ last'.ret = "void"
             /\ statusFile' = statusFile
             /\ folders' = folders]_vars

\* The same for a StatusFile that exists and cannot be parsed.
C15_RollbackWithCorruptRecordIsNoOp ==
    [][(statusFile.kind = "corrupt" /\ last'.op = "rollback")
          => /\ last'.ret = "void"
             /\ statusFile' = statusFile
             /\ folders' = folders]_vars

\* C16: with a StatusFile that does not parse, InstallPackageAsync(P, false)
\* for a downloaded package P succeeds and persists a record with
\* currentPackage = P.
C16_InstallRecoversFromCorruptRecord ==
    [][(/\ statusFile.kind = "corrupt"
        /\ last'.op = "install" /\ last'.ret # "interrupted" /\ ~last'.flag
        /\ HasMetadataFile(folders, last'.hash))
          => /\ last'.ret = "true"
             /\ statusFile'.kind = "json"
             /\ statusFile'.currentPackage = last'.hash]_vars

(***************************************************************************)
(* The package getters                                                     *)
(***************************************************************************)
\* What a getter is to answer for the recorded value h: the metadata of the
\* folder h names, no package when h is empty, the folder is missing or it
\* holds no metadata file.
ExpectedPackage(h, fl) ==
    IF HasMetadataFile(fl, h) THEN fl[h].tree.files[<<UpdateMetadataFileName>>]
    ELSE NoPackage

\* C17: GetCurrentPackage and GetPreviousPackage never fail: in every state
\* they answer no package when the recorded hash is empty, its folder is
\* missing or the folder has no metadata file, and the parsed metadata of
\* the folder the recorded hash names otherwise.  (They are read-only: the
\* operators take the state and give an answer.)
C17_GettersNeverFail ==
    /\ GetCurrentPackageAsync(statusFile, folders)
          = ExpectedPackage(statusFile.currentPackage, folders)
    /\ GetPreviousPackageAsync(statusFile, folders)
          = ExpectedPackage(statusFile.previousPackage, folders)

\* The same while the record holds no null value.
C17_GettersNeverFailOnStrings ==
    (statusFile.currentPackage # JsonNull /\ statusFile.previousPackage # JsonNull)
        => C17_GettersNeverFail

(***************************************************************************)
(* The download's frame                                                    *)
(***************************************************************************)
\* C18: DownloadPackageAsync never modifies the StatusFile: on every path
\* (single file, full archive, diff archive, success or failure) the
\* persisted currentPackage and previousPackage are after the call what
\* they were before it; a step that changes them is an install (or a
\* rollback or a clear).
C18_DownloadKeepsStatusFile ==
    [][/\ last'.op = "download" => statusFile' = statusFile
       /\ statusFile' # statusFile => last'.op \in {"install", "rollback", "clear"}]_vars

\* A diff download that succeeded on a root with a persisted record.
C18_Witness ==
    /\ result.stage = "downloaded" /\ last.op = "download" /\ last.ret = "void"
    /\ result.archive.manifest = "ok"
    /\ result.statusBefore = StatusJson(1, EmptyStr)
    /\ statusFile = result.statusBefore
    /\ folders # result.before

(***************************************************************************)
(* The full reset                                                          *)
(***************************************************************************)
\* C19: after ClearUpdatesAsync, from any reachable state, no package folder
\* and no StatusFile remain under the root, GetCurrentPackage and
\* GetPreviousPackage report no package, and a following install does what
\* it does on a fresh root.
C19_ClearLeavesFreshRoot ==
    last.op = "clear" =>
        /\ \A h \in Hashes : ~folders[h].exists
        /\ statusFile.kind = "none"
        /\ GetCurrentPackageAsync(statusFile, folders) = NoPackage
        /\ GetPreviousPackageAsync(statusFile, folders) = NoPackage
        /\ \A P \in Hashes, removePendingUpdate \in BOOLEAN :
              InstallPackageAsync(P, removePendingUpdate, statusFile, folders, "throws")
                = InstallPackageAsync(P, removePendingUpdate, NoStatusFile,
                                      [h \in Hashes |-> NoFolder], "throws")

\* A clear of a root that had package 1 current.
C19_Witness ==
    /\ last.op = "clear" /\ last.preCur = 1
    /\ \A h \in Hashes : ~folders[h].exists
    /\ statusFile.kind = "none"

(***************************************************************************)
(* The record transition of an install                                     *)
(***************************************************************************)
\* A recorded value as a hash, EmptyStr when the key is absent.
Recorded(v) == IF v = AbsentKey THEN EmptyStr ELSE v

\* C20: for every record (c, p) of hashes or empty values, no StatusFile
\* counting as the empty record, and every hash P other than c, an install
\* of P with removePendingUpdate = false deletes the folder of p iff p is
\* not empty and is not P, and persists (currentPackage = P,
\* previousPackage = c); with removePendingUpdate = true it deletes the
\* folder of c, leaves previousPackage p and sets currentPackage to P.  No
\* other package folder is deleted.
C20_InstallRecordTransition ==
    [][LET c == Recorded(statusFile.currentPackage)
           p == Recorded(statusFile.previousPackage)
           P == last'.hash
       IN  (/\ last'.op = "install" /\ last'.ret # "interrupted"
            /\ statusFile.kind \in {"none", "json"}
            /\ c \in Hashes \cup {EmptyStr} /\ p \in Hashes \cup {EmptyStr}
            /\ P # c)
             => /\ last'.ret = "true"
                /\ statusFile'.kind = "json"
                /\ statusFile'.currentPackage = P
                /\ IF last'.flag
                   THEN /\ Recorded(statusFile'.previousPackage) = p
                        /\ \A h \in Hashes :
                              folders'[h] = IF h = c THEN NoFolder ELSE folders[h]
                   ELSE /\ statusFile'.previousPackage = c
                        /\ \A h \in Hashes :
                              folders'[h] = IF h = p /\ p # P THEN NoFolder ELSE folders[h]]_vars

\* A rotation that found the folders of c = 1, of p = 3 and of P = 2 and
\* left those of 1 and 2.
C20_Witness ==
    /\ last.op = "install" /\ last.ret = "true" /\ ~last.flag
    /\ last.hash = 2 /\ last.preCur = 1
    /\ statusFile = StatusJson(2, 1)
    /\ folders[1].exists /\ folders[2].exists /\ ~folders[3].exists

(***************************************************************************)
(* The record transition of a rollback                                     *)
(***************************************************************************)
\* A rollback step from a record (c, p) of hashes, empty or absent values.
RollbackFromRecord ==
    /\ last'.op = "rollback"
    /\ statusFile.kind = "json"
    /\ Recorded(statusFile.currentPackage) \in Hashes \cup {EmptyStr}
    /\ Recorded(statusFile.previousPackage) \in Hashes \cup {EmptyStr}

\* What C21 says of the step.
RollbackTransition ==
    LET c == Recorded(statusFile.currentPackage)
        p == Recorded(statusFile.previousPackage)
    IN  /\ last'.ret = "void"
        /\ statusFile'.kind = "json"
        /\ statusFile'.currentPackage = p
        /\ statusFile'.previousPackage = AbsentKey
        /\ \A h \in Hashes : folders'[h] = IF h = c /\ h # p THEN NoFolder ELSE folders[h]
        /\ p = EmptyStr => GetCurrentPackageAsync(statusFile', folders') = NoPackage

\* C21: from a readable record (c, p), RollbackPackage deletes the folder of
\* c, persists currentPackage = p with no previousPackage and leaves the
\* folder of p; when p is empty or absent the call completes without error,
\* the record's currentPackage is empty and GetCurrentPackage reports no
\* package.
C21_RollbackTransition ==
    [][RollbackFromRecord => RollbackTransition]_vars

\* The same for a record whose previousPackage key is present and names
\* another package than currentPackage.
C21_RollbackTransitionWithPreviousKey ==
    [][(/\ RollbackFromRecord
        /\ statusFile.previousPackage # AbsentKey
        /\ statusFile.previousPackage # statusFile.currentPackage) => RollbackTransition]_vars

(***************************************************************************)
(* Deletions of a diff manifest                                            *)
(***************************************************************************)
\* A diff download during which the delete of one listed item fails, on a
\* root where the same archive with no failing delete is applied with
\* success.
DeletionFailed ==
    /\ result.stage = "downloaded" /\ last.op = "download"
    /\ result.archive.manifest = "entryFails"
    /\ \E d \in result.archive.deletedFiles :
          LET cur == result.statusBefore.currentPackage
          IN  cur \in Hashes /\ cur # last.hash /\ ItemExists(result.before[cur].tree, d)
    /\ \A o \in DownloadPackageAsync(last.hash, [result.archive EXCEPT !.manifest = "ok"],
                                      result.expected, result.statusBefore, result.before,
                                      "throws") : o.ret = "void"

\* C22: when the delete of one item named in deletedFiles fails during a
\* diff update, DownloadPackageAsync does not abort: it goes on to remove
\* the manifest and to overlay the archive, so the call succeeds and the
\* archive's files are in the new package folder, without the manifest.
C22_FailedDeletionDoesNotAbort ==
    DeletionFailed =>
        LET new == folders[last.hash].tree
        IN  /\ last.ret = "void"
            /\ \A n \in Unwrapped(result.archive.paths) : IsFile(new, n)
            /\ ~IsFile(new, <<DiffManifestFileName>>)

(***************************************************************************)
(* The diff seeded from the binary                                         *)
(***************************************************************************)
\* A successful diff download that found no current package folder.
DiffSeededFromBinary ==
    /\ result.stage = "downloaded" /\ last.op = "download" /\ last.ret = "void"
    /\ result.archive.manifest = "ok"
    /\ result.archive.deletedFiles = {}
    /\ GetCurrentPackageFolderAsync(result.statusBefore,
                                    [result.before EXCEPT ![last.hash] = Folder(EmptyTree)],
                                    "throws") = EmptyStr

\* C23: in a diff update with no current package the seed lies under
\* CodePush in the new package folder and the overlay keeps the archive's
\* layout: every path that is both in the seed and in the archive ends as a
\* file with the archive's bytes, and the archive's bytes are at no path the
\* archive does not have, also for an archive whose only item beside the
\* manifest is the wrapper folder CodePush.
C23_OverlayReplacesBinarySeed ==
    DiffSeededFromBinary =>
        LET new == folders[last.hash].tree
        IN  /\ \A q \in (DOMAIN SeedFromBinary.files) \cap result.archive.paths :
                  IsFile(new, q) /\ new.files[q] = Data(last.hash)
            /\ \A f \in ContentFiles(new) :
                  new.files[f] = Data(last.hash) => f \in result.archive.paths

\* The same for an archive that holds more than the wrapper folder.
C23_UnwrappedOverlayReplacesBinarySeed ==
    (DiffSeededFromBinary /\ ~IsWrapped(result.archive.paths)) => C23_OverlayReplacesBinarySeed

(***************************************************************************)
(* Skip and stop in UnzipAsync                                             *)
(***************************************************************************)
\* An entry name whose final segment the sanitizer rejects.
RejectedName(name) == ~SanitizeSegment(FinalSegment(name)).ok

\* What C24 says of the entry the loop has just taken: skipped when it is a
\* directory, over the per-entry cap, undecompressable, unwritable or has a
\* rejected name; the walk ended when it would push the total over the cap;
\* and the loop still in hand.
EntrySkippedOrStopped ==
    LET prevTotal   == result.totalOut - (IF result.created THEN result.size ELSE 0)
        passedOver  == \/ result.fate = "skipped" \/ EarlySkip(result.name)
                       \/ result.size > kMaxEntryBytes
        wouldExceed == prevTotal + result.size > kMaxTotalBytes
        fails       == \/ result.fate \in {"extractFails", "writeFails"}
                       \/ RejectedName(result.name)
    IN  /\ result.turn # "noReturn"
        /\ passedOver => result.turn = "continue" /\ ~result.created
        /\ (~passedOver /\ wouldExceed) => result.turn = "break" /\ ~result.created
        /\ (~passedOver /\ ~wouldExceed /\ fails) => result.turn = "continue" /\ ~result.created

\* C24: walking the entries in archive order, UnzipAsync skips a directory
\* entry, an entry over the per-entry cap, an entry that fails to
\* decompress, an entry whose file creation or write fails and an entry
\* with a rejected name, and goes on to the later entries; the first entry
\* that would push the running total over the total cap ends the walk and
\* nothing is written after it; UnzipAsync returns normally in all these
\* cases.
C24_SkipOrStop ==
    /\ []((result.stage = "unzip" /\ result.i > 0) => EntrySkippedOrStopped)
    /\ [][(result.stage = "unzip" /\ result.stopped)
             => result'.bytesWritten = result.bytesWritten /\ result'.returned]_vars

\* The same for the entries whose name CreateFileFromPathAsync comes back
\* from.
C24_SkipOrStopOnReturningNames ==
    /\ []((result.stage = "unzip" /\ result.i > 0 /\ result.name # <<92>>)
            => EntrySkippedOrStopped)
    /\ [][(result.stage = "unzip" /\ result.stopped)
             => result'.bytesWritten = result.bytesWritten /\ result'.returned]_vars

(***************************************************************************)
(* Structural failures of a download                                       *)
(***************************************************************************)
\* A download of an archive that cannot be opened as a zip, or that leaves
\* no bundle to be found in the new package folder.
StructuralFailure ==
    /\ result.stage = "downloaded" /\ last.op = "download"
    /\ result.archive.arrives /\ result.archive.isZip
    /\ result.archive.manifest \in {"none", "ok"}
    /\ \/ ~result.archive.opens
       \/ <<>> \in FindFilePathAsync(folders[last.hash].tree, result.expected)

\* C25: when the downloaded archive cannot be opened as a zip, or no bundle
\* is found after the archive was processed, DownloadPackageAsync fails to
\* its caller, P's folder holds no metadata file that GetPackage(P) could
\* report (it reports no package), and P's folder is not deleted.
C25_StructuralFailureLeavesEvidence ==
    StructuralFailure =>
        /\ last.ret = "throw"
        /\ folders[last.hash].exists
        /\ GetPackageAsync(last.hash, folders) = NoPackage

\* The same for the archives that are full or seeded from the binary.
C25_UnseededFailureLeavesEvidence ==
    (/\ StructuralFailure
     /\ \/ result.archive.manifest = "none"
        \/ GetCurrentPackageFolderAsync(result.statusBefore,
                                        [result.before EXCEPT ![last.hash] = Folder(EmptyTree)],
                                        "throws") = EmptyStr)
        => C25_StructuralFailureLeavesEvidence

(***************************************************************************)
(* The metadata file of a downloaded package                               *)
(***************************************************************************)
\* C26: after a successful DownloadPackageAsync(P), a diff update seeded
\* from a current package Q whose folder holds Q's metadata file included,
\* the metadata file in P's folder is the descriptor of P: packageHash = P
\* with the relativeBundlePath resolved for P (none for a single-file
\* update), never Q's.
C26_MetadataDescribesPackage ==
    (result.stage = "downloaded" /\ last.op = "download" /\ last.ret = "void") =>
        LET t == folders[last.hash].tree
            metaPath == <<UpdateMetadataFileName>>
        IN  /\ IsFile(t, metaPath)
            /\ t.files[metaPath].kind = "meta"
            /\ t.files[metaPath].packageHash = last.hash
            /\ IF result.archive.isZip
               THEN /\ t.files[metaPath].bundlePath # <<>>
                    /\ t.files[metaPath].bundlePath
                          \in FindFilePathAsync(DeleteItem(t, metaPath), result.expected)
               ELSE t.files[metaPath].bundlePath = <<>>

\* A diff download of package 2 seeded from package 1, whose folder holds
\* the metadata file of package 1.
C26_Witness ==
    /\ DiffSeededFromCurrent
    /\ last.hash = 2
    /\ result.before[1].tree.files[<<UpdateMetadataFileName>>].packageHash = 1
    /\ folders[2].tree.files[<<UpdateMetadataFileName>>].packageHash = 2

(***************************************************************************)
(* Two calls of InstallPackageAsync / RollbackPackage that the caller does *)
(* not serialize.  Each coroutine runs to its next co_await and can be     *)
(* overtaken there: it reads the StatusFile into info, then looks up and   *)
(* deletes a folder (GetCurrentPackageFolderAsync and                      *)
(* GetPreviousPackageHashAsync read the StatusFile again), then writes the *)
(* whole record it built from info.                                        *)
(***************************************************************************)
\* A downloaded package folder.
DownloadedFolder(h) == Folder(PersistMetadata(SingleFileTree(h), h, <<>>))

\* Roots with every package downloaded and a record of none, one or two.
RaceRoots ==
    {[folders |-> [h \in Hashes |-> DownloadedFolder(h)], statusFile |-> sf] :
        sf \in {NoStatusFile, StatusJson(1, EmptyStr), StatusJson(2, 1)}}

\* The calls: an install of a hash with a flag, or a rollback on a build
\* with one of the library's null behaviours.
RaceCalls ==
    {[op |-> "install", hash |-> P, flag |-> f, pf |-> "throws"] : P \in Hashes, f \in BOOLEAN}
    \cup {[op |-> "rollback", hash |-> EmptyStr, flag |-> FALSE, pf |-> pf] : pf \in Platforms}

RaceInit ==
    /\ \E r \in RaceRoots : folders = r.folders /\ statusFile = r.statusFile
    /\ last = [op |-> "init", hash |-> EmptyStr, flag |-> FALSE, ret |-> "void",
               preCur |-> EmptyStr, follows |-> FALSE]
    /\ \E a \in RaceCalls, b \in RaceCalls :
          input = [calls |-> <<a, b>>, statusFile |-> statusFile, folders |-> folders]
    /\ result = [stage |-> "race", pc |-> <<"start", "start">>,
                 info |-> <<NoStatusFile, NoStatusFile>>, ret |-> <<"none", "none">>,
                 overlapped |-> FALSE]

\* The other call is between its first read and its return.
RaceOtherMidFlight(k) == result.pc[3 - k] \in {"delete", "write"}

RaceStep(k, pc, info, ret) ==
    result' = [result EXCEPT !.pc[k] = pc, !.info[k] = info, !.ret[k] = ret,
                             !.overlapped = result.overlapped \/ RaceOtherMidFlight(k)]

\* auto info{ co_await GetCurrentPackageInfoAsync() } and the early returns.
RaceRead(k) ==
    LET d == input.calls[k]
        entry == IF d.op = "install" THEN InstallEntry(d.hash, statusFile)
                 ELSE IF GetCurrentPackageInfoAsync(statusFile).null THEN "void" ELSE "go"
    IN  /\ result.stage = "race" /\ result.pc[k] = "start"
        /\ IF entry = "go" THEN RaceStep(k, "delete", statusFile, "none")
           ELSE RaceStep(k, "done", statusFile, entry)
        /\ UNCHANGED <<storeVars, input>>

\* The folder lookup, on the StatusFile as it is now, and the delete.
RaceDelete(k) ==
    LET d == input.calls[k]
        target == IF d.op = "install"
                  THEN InstallDeletedFolder(d.hash, d.flag, statusFile, folders, d.pf)
                  ELSE GetCurrentPackageFolderAsync(statusFile, folders, d.pf)
    IN  /\ result.stage = "race" /\ result.pc[k] = "delete"
        /\ IF target = Thrown
           THEN RaceStep(k, "done", result.info[k], "throw") /\ UNCHANGED folders
           ELSE RaceStep(k, "write", result.info[k], "none")
                /\ folders' = DeleteFolder(folders, target)
        /\ UNCHANGED <<statusFile, last, input>>

\* A write that builds its record from the StatusFile as it is now.
RaceWrittenRecordFromFreshRead(d, info, now) ==
    IF d.op = "install" THEN InstallRecord(d.hash, d.flag, now)
    ELSE UpdateCurrentPackageInfoAsync(RollbackCurrent(GetCurrentPackageInfoAsync(now)),
                                       AbsentKey)

\* The record a call writes: built from the info it read at its start.
RaceWrittenRecord(d, info, now) ==
    IF d.op = "install" THEN InstallRecord(d.hash, d.flag, info)
    ELSE UpdateCurrentPackageInfoAsync(RollbackCurrent(GetCurrentPackageInfoAsync(info)),
                                       AbsentKey)

\* co_await UpdateCurrentPackageInfoAsync(info)
RaceWrite(k) ==
    LET d == input.calls[k]
        info == result.info[k]
    IN  /\ result.stage = "race" /\ result.pc[k] = "write"
        /\ IF d.op = "rollback" /\ info.previousPackage = AbsentKey /\ d.pf = "throws"
           THEN RaceStep(k, "done", info, "throw") /\ UNCHANGED statusFile
           ELSE /\ RaceStep(k, "done", info, IF d.op = "install" THEN "true" ELSE "void")
                /\ statusFile' = RaceWrittenRecord(d, info, statusFile)
        /\ UNCHANGED <<folders, last, input>>

RaceNext == \E k \in {1, 2} : RaceRead(k) \/ RaceDelete(k) \/ RaceWrite(k)

SpecRace == RaceInit /\ [][RaceNext]_vars

\* One call run alone on a root, by the operators of the serialized store.
SerialRun(d, st) ==
    LET o == IF d.op = "install"
             THEN InstallPackageAsync(d.hash, d.flag, st.statusFile, st.folders, d.pf)
             ELSE RollbackPackage(st.statusFile, st.folders, d.pf)
    IN  [statusFile |-> o.statusFile, folders |-> o.folders]

\* The final states the two serial orders of the calls give.
SerialOutcomes ==
    LET st == [statusFile |-> input.statusFile, folders |-> input.folders]
    IN  {SerialRun(input.calls[2], SerialRun(input.calls[1], st)),
         SerialRun(input.calls[1], SerialRun(input.calls[2], st))}

RaceDone == result.stage = "race" /\ result.pc = <<"done", "done">>

RaceFinal == [statusFile |-> statusFile, folders |-> folders]

\* C27: nothing keeps two installs, or an install and a rollback, apart:
\* each writes the whole record it built from the StatusFile as it read it
\* at its start, whatever the other call has written since; while the calls
\* do not overlap the final state is that of a serial order, and
\* interleaved at their await points they reach final states no serial
\* order gives.
C27_InterleavedCallsAreUnsafe ==
    /\ [](RaceDone /\ ~result.overlapped => RaceFinal \in SerialOutcomes)
    /\ [][\A k \in {1, 2} :
            (/\ result.stage = "race" /\ result.pc[k] = "write"
             /\ result'.pc[k] = "done" /\ result'.ret[k] # "throw")
              => statusFile' =
                    IF input.calls[k].op = "install"
                    THEN InstallRecord(input.calls[k].hash, input.calls[k].flag, result.info[k])
                    ELSE StatusJson(RollbackCurrent(GetCurrentPackageInfoAsync(result.info[k])),
                                    AbsentKey)]_vars

\* Two installs that both returned true and left a state no serial order
\* gives: the record's previousPackage names a folder that was deleted.
C27_Witness ==
    /\ RaceDone /\ result.overlapped
    /\ result.ret = <<"true", "true">>
    /\ RaceFinal \notin SerialOutcomes
    /\ statusFile.previousPackage \in Hashes
    /\ ~folders[statusFile.previousPackage].exists

\* C28: under serialized Install (either flag) and Rollback calls the record
\* never names the same package as currentPackage and previousPackage, and
\* so no Rollback makes current a package whose folder it has just deleted.
C28_CurrentNeverEqualsPrevious ==
    /\ [](statusFile.kind = "json" /\ statusFile.currentPackage \in Hashes
            => statusFile.currentPackage # statusFile.previousPackage)
    /\ [][(/\ last'.op = "rollback" /\ last'.ret = "void"
           /\ statusFile.kind = "json" /\ statusFile'.kind = "json"
           /\ statusFile'.currentPackage \in Hashes
           /\ folders[statusFile'.currentPackage].exists)
            => folders'[statusFile'.currentPackage].exists]_vars

\* C29: for every entry name that passes UnzipAsync's early skip checks,
\* names beginning with a backslash, carrying a drive or root prefix or made
\* of separators included, the loop of CreateFileFromPathAsync that peels
\* parent paths into segments ends, so the call returns or throws and the
\* extraction goes on to its end.
C29_PeelLoopTerminates ==
    (result.stage = "called" /\ ~EarlySkip(input)) => result.call.outcome # "noReturn"

\* C30: after a successful single-file download of P and a successful
\* install of P, GetCurrentPackageBundleAsync returns the moved bundle file
\* in P's folder: the stored relativeBundlePath resolves to it.
C30_SingleFileBundleIsFound ==
    (/\ result.stage = "downloaded" /\ result.archive.arrives /\ ~result.archive.isZip
     /\ last.op = "install" /\ last.ret = "true")
      => /\ statusFile.currentPackage = last.hash
         /\ IsFile(folders[last.hash].tree, <<UpdateBundleFileName>>)
         /\ GetCurrentPackageBundleAsync(statusFile, folders, "throws")
              = [kind |-> "file", path |-> <<UpdateBundleFileName>>]

\* What does hold there: the moved file is in the current package's folder.
C30_SingleFileBundleIsStored ==
    (/\ result.stage = "downloaded" /\ result.archive.arrives /\ ~result.archive.isZip
     /\ last.op = "install" /\ last.ret = "true")
      => /\ statusFile.currentPackage = last.hash
         /\ IsFile(folders[last.hash].tree, <<UpdateBundleFileName>>)

(***************************************************************************)
(* One extraction of an archive with two entries of different names:       *)
(* UnzipAsync's loop hands each entry that passes the early checks to      *)
(* CreateFileFromPathAsync, which creates the file with ReplaceExisting.   *)
(***************************************************************************)
MaxEntryNameLen == 3

EntryNameAlphabet == {97, 46, 32, 47, 92}    \* a . space / \

NoDestination == [dirs |-> <<>>, file |-> <<>>]

ExtractInit ==
    /\ StoreInit
    /\ \E n1 \in Strings(EntryNameAlphabet, MaxEntryNameLen),
          n2 \in Strings(EntryNameAlphabet, MaxEntryNameLen) :
          n1 # n2 /\ input = <<n1, n2>>
    /\ result = [stage |-> "extract", i |-> 0, turn |-> "continue",
                 written |-> <<NoDestination, NoDestination>>]

\* One turn of the loop: the early checks, then the file creation.
ExtractEntry ==
    /\ result.stage = "extract" /\ result.turn = "continue" /\ result.i < 2
    /\ LET name == input[result.i + 1]
           call == CreateFileFromPathAsync(name)
       IN  result' =
             IF EarlySkip(name) THEN [result EXCEPT !.i = @ + 1]
             ELSE IF call.outcome = "noReturn" THEN [result EXCEPT !.i = @ + 1, !.turn = "noReturn"]
             ELSE IF call.outcome = "invalidName" THEN [result EXCEPT !.i = @ + 1, !.turn = "break"]
             ELSE [result EXCEPT !.i = @ + 1,
                                 !.written[result.i + 1] = [dirs |-> call.dirs, file |-> call.file]]
    /\ UNCHANGED <<storeVars, input>>

SpecExtract == ExtractInit /\ [][ExtractEntry]_vars

\* C31: within one extraction two entries with different names are never
\* written to the same destination path, so no extracted file is replaced
\* by a later entry.
C31_DistinctNamesDistinctFiles ==
    (/\ result.stage = "extract"
     /\ result.written[1] # NoDestination /\ result.written[2] # NoDestination)
      => result.written[1] # result.written[2]

====
